---- MODULE Spec2Model ----
(***************************************************************************)
(* A model of the agent test suite (src/agent_test.py) and of the static   *)
(* file server (src/server.py).                                            *)
(*                                                                         *)
(* AgentTester is modelled as an object with the fields test_results and   *)
(* start_time.  The environment it reads is the wall clock (datetime.now), *)
(* the working directory (the temporary file of test_file_operations and   *)
(* the report file of main) and the outcome of the three operations that   *)
(* test_error_handling triggers.  Three specifications share the model:    *)
(*   Spec        any sequence of calls on one AgentTester,                 *)
(*   SpecMain    one run of main() up to the exit of the process,          *)
(*   SpecServer  one run of start_server() up to return or exit.           *)
(***************************************************************************)
EXTENDS Integers, Sequences, FiniteSets, TLC

VARIABLES
    test_results,   \* AgentTester.test_results
    start_time,     \* AgentTester.start_time
    clock,          \* the wall clock read by datetime.now()
    tempFile,       \* temp_test_file.txt in the working directory: <<>> or <<content>>
    fileFault,      \* the fault the disk raised in the last test_file_operations
    call,           \* the last call on the tester: its name, exception and return value
    pc,             \* position of main()
    exitStatus,     \* exit status of the runner process, -1 while it runs
    reportFile,     \* agent_test_report.json: <<>> or <<report>>
    platform,       \* operating system of the server process
    occupied,       \* ports held by other listeners
    srvState,       \* position of start_server()
    port,           \* argument of the innermost start_server() frame
    lastErr,        \* the OSError caught by the innermost frame: <<>> or <<[kind, errno]>>
    stdout,         \* the server's printed messages
    srvExit         \* exit status of the server process, -1 while it runs

testerVars == <<test_results, start_time, clock, tempFile, fileFault, call>>
mainVars   == <<pc, exitStatus, reportFile>>
serverVars == <<platform, occupied, srvState, port, lastErr, stdout, srvExit>>
vars       == <<testerVars, mainVars, serverVars>>

(***************************************************************************)
(* Bounds of the model.                                                    *)
(***************************************************************************)
MaxResults == 3
MaxClock   == 1
MaxProbe   == 3

(***************************************************************************)
(* datetime.now(): the clock does not run backwards; between two reads it  *)
(* stays or advances by one unit.                                          *)
(***************************************************************************)
Now(c) == {t \in {c, c + 1} : t <= MaxClock}

(***************************************************************************)
(* log_test: append one record at the end of test_results.                 *)
(***************************************************************************)
DefaultDetails == ""

log_test_prepend(results, test_name, success, details, now) ==
    <<[test |-> test_name, success |-> success, details |-> details,
       timestamp |-> now]>> \o results

log_test(results, test_name, success, details, now) ==
    Append(results, [test |-> test_name, success |-> success,
                     details |-> details, timestamp |-> now])

NoException == ""
NoValue     == <<>>

Returned(op)     == [op |-> op, exc |-> NoException, value |-> NoValue]
Raised(op, exc)  == [op |-> op, exc |-> exc, value |-> NoValue]
ReturnedValue(op, v) == [op |-> op, exc |-> NoException, value |-> <<v>>]

\* The outcome of the body of a check: it ran through, or an exception with
\* the message str(e) reached the check's "except Exception as e".
Passed      == [raised |-> FALSE, msg |-> ""]
Fault(msg)  == [raised |-> TRUE, msg |-> msg]

\* try: <body>; log_test(name, True, summary)  except Exception as e:
\* log_test(name, False, str(e))
RecordOutcome_dropped(results, name, outcome, summary, now) ==
    IF outcome.raised
    THEN results
    ELSE log_test(results, name, TRUE, summary, now)

RecordOutcome(results, name, outcome, summary, now) ==
    IF outcome.raised
    THEN log_test(results, name, FALSE, outcome.msg, now)
    ELSE log_test(results, name, TRUE, summary, now)

(***************************************************************************)
(* test_basic_operations                                                   *)
(***************************************************************************)
text    == "Hello, Agent!"
numbers == <<1, 2, 3, 4, 5>>
squared == [i \in 1..Len(numbers) |-> numbers[i] * numbers[i]]

basic_operations_body ==
    IF 2 + 2 # 4 THEN Fault("Expected 4, got " \o ToString(2 + 2))
    ELSE IF Len(text) # 13
         THEN Fault("Expected length 13, got " \o ToString(Len(text)))
    ELSE IF squared # <<1, 4, 9, 16, 25>>
         THEN Fault("Unexpected result: " \o ToString(squared))
    ELSE Passed

test_basic_operations ==
    \E now \in Now(clock) :
        /\ test_results' = RecordOutcome(test_results, "Basic Operations",
                               basic_operations_body,
                               "Math, strings, and lists working correctly", now)
        /\ clock' = now
        /\ call' = Returned("test_basic_operations")
        /\ UNCHANGED <<start_time, tempFile, fileFault>>

(***************************************************************************)
(* test_file_operations.  The disk decides where the body faults: opening  *)
(* the file for writing, opening it for reading, the content read back, or *)
(* os.remove.                                                              *)
(***************************************************************************)
test_file    == "temp_test_file.txt"
test_content == "This is a test file created by the agent.\nLine 2\nLine 3"

FileFaults == {"none", "open_w", "open_r", "read_data", "remove"}

FaultMessage(f) ==
    CASE f = "open_w"    -> "[Errno 13] Permission denied: 'temp_test_file.txt'"
      [] f = "open_r"    -> "[Errno 5] Input/output error: 'temp_test_file.txt'"
      [] f = "read_data" -> "File content mismatch"
      [] f = "remove"    -> "[Errno 1] Operation not permitted: 'temp_test_file.txt'"
      [] OTHER           -> ""

file_operations_body(f) == IF f = "none" THEN Passed ELSE Fault(FaultMessage(f))

\* The temporary file after the body ran with fault f.
file_after_keep(file, f) ==
    IF f = "open_w" THEN file ELSE <<test_content>>

file_after(file, f) ==
    CASE f = "open_w" -> file                \* open(test_file, 'w') raised
      [] f = "none"   -> <<>>                \* os.remove(test_file)
      [] OTHER        -> <<test_content>>    \* written, never removed

test_file_operations ==
    \E now \in Now(clock), f \in FileFaults :
        /\ test_results' = RecordOutcome(test_results, "File Operations",
                               file_operations_body(f),
                               "File write/read/delete successful", now)
        /\ tempFile' = file_after(tempFile, f)
        /\ fileFault' = f
        /\ clock' = now
        /\ call' = Returned("test_file_operations")
        /\ UNCHANGED start_time

(***************************************************************************)
(* test_data_structures: a JSON round trip of a dictionary and a set       *)
(* intersection.  json.dumps is modelled as the list of the (key, value)   *)
(* members in insertion order, json.loads as the dictionary built from it. *)
(***************************************************************************)
data_keys == <<"name", "version", "features">>
data == [k \in {"name", "version", "features"} |->
           CASE k = "name"     -> <<"str", "Agent Test">>
             [] k = "version"  -> <<"str", "1.0">>
             [] k = "features" -> <<"list", <<"coding", "testing", "debugging">>>>]

json_dumps(d, keys) == [i \in 1..Len(keys) |-> <<keys[i], d[keys[i]]>>]

\* A later member of the same name wins, as in json.loads.
json_loads(s) ==
    [k \in {s[i][1] : i \in 1..Len(s)} |->
        s[CHOOSE i \in 1..Len(s) :
              s[i][1] = k /\ \A j \in (i + 1)..Len(s) : s[j][1] # k][2]]

data_structures_body ==
    IF json_loads(json_dumps(data, data_keys)) # data
    THEN Fault("JSON serialization/deserialization failed")
    ELSE IF ({1, 2, 3, 4, 5} \cap {4, 5, 6, 7, 8}) # {4, 5}
         THEN Fault("Expected (4, 5), got "
                    \o ToString({1, 2, 3, 4, 5} \cap {4, 5, 6, 7, 8}))
    ELSE Passed

test_data_structures ==
    \E now \in Now(clock) :
        /\ test_results' = RecordOutcome(test_results, "Data Structures",
                               data_structures_body,
                               "Dictionaries, JSON, and sets working correctly", now)
        /\ clock' = now
        /\ call' = Returned("test_data_structures")
        /\ UNCHANGED <<start_time, tempFile, fileFault>>

(***************************************************************************)
(* test_algorithms: recursive Fibonacci, sorting, trial-division primality *)
(***************************************************************************)
RECURSIVE fibonacci(_)
fibonacci(n) == IF n <= 1 THEN n ELSE fibonacci(n - 1) + fibonacci(n - 2)

\* sorted(): insertion of each element into the sorted prefix
RECURSIVE insert_sorted(_, _)
insert_sorted(s, x) ==
    IF s = <<>> THEN <<x>>
    ELSE IF x < Head(s) THEN <<x>> \o s
    ELSE <<Head(s)>> \o insert_sorted(Tail(s), x)

RECURSIVE sorted(_)
sorted(s) == IF s = <<>> THEN <<>>
             ELSE insert_sorted(sorted(SubSeq(s, 1, Len(s) - 1)), s[Len(s)])

\* int(math.sqrt(n))
int_sqrt(n) == CHOOSE r \in 0..n : r * r <= n /\ (r + 1) * (r + 1) > n

is_prime(n) ==
    IF n < 2 THEN FALSE
    ELSE \A i \in 2..int_sqrt(n) : n % i # 0

unsorted_list == <<64, 34, 25, 12, 22, 11, 90>>
expected      == <<11, 12, 22, 25, 34, 64, 90>>

algorithms_body ==
    IF fibonacci(10) # 55
    THEN Fault("Expected 55, got " \o ToString(fibonacci(10)))
    ELSE IF sorted(unsorted_list) # expected
         THEN Fault("Expected " \o ToString(expected) \o ", got "
                    \o ToString(sorted(unsorted_list)))
    ELSE IF is_prime(17) # TRUE THEN Fault("17 should be prime")
    ELSE IF is_prime(18) # FALSE THEN Fault("18 should not be prime")
    ELSE Passed

test_algorithms ==
    \E now \in Now(clock) :
        /\ test_results' = RecordOutcome(test_results, "Algorithms",
                               algorithms_body,
                               "Fibonacci, sorting, and prime checking working", now)
        /\ clock' = now
        /\ call' = Returned("test_algorithms")
        /\ UNCHANGED <<start_time, tempFile, fileFault>>

(***************************************************************************)
(* test_error_handling.  Each of the three operations 10 / 0, lst[10] and  *)
(* "string" + 42 either raises the exception its handler expects or        *)
(* returns; the code has a branch for both outcomes.                       *)
(***************************************************************************)
Outcomes == {"raises", "returns"}

\* try: <op>; log_test("Error Handling", False, msg)  except <Expected>: pass
Triggered(results, outcome, msg, now) ==
    IF outcome = "returns"
    THEN log_test(results, "Error Handling", FALSE, msg, now)
    ELSE results

error_handling_results(results, div, idx, typ, now) ==
    LET r1 == Triggered(results, div, "Should have caught division by zero", now)
        r2 == Triggered(r1, idx, "Should have caught index error", now)
        r3 == Triggered(r2, typ, "Should have caught type error", now)
    IN  log_test(r3, "Error Handling", TRUE,
                 "All expected errors caught correctly", now)

test_error_handling ==
    \E now \in Now(clock), div \in Outcomes, idx \in Outcomes, typ \in Outcomes :
        /\ test_results' = error_handling_results(test_results, div, idx, typ, now)
        /\ clock' = now
        /\ call' = Returned("test_error_handling")
        /\ UNCHANGED <<start_time, tempFile, fileFault>>

(***************************************************************************)
(* generate_report.  A float is modelled by the rational it denotes, as a  *)
(* fraction <<numerator, denominator>> in lowest terms; for the at most    *)
(* MaxResults entries of the model the double (passed/total)*100 equals    *)
(* 100.0 exactly when the rational does.                                   *)
(***************************************************************************)
RECURSIVE gcd(_, _)
gcd(a, b) == IF b = 0 THEN a ELSE gcd(b, a % b)

Fraction(n, d) == <<n \div gcd(n, d), d \div gcd(n, d)>>

Hundred == Fraction(100, 1)

\* f"{x:.1f}": x in tenths, rounded to the nearest, ties to even
FormatTenths(x) ==
    LET q == (x[1] * 10) \div x[2]
        r == (x[1] * 10) % x[2]
    IN  IF 2 * r > x[2] \/ (2 * r = x[2] /\ q % 2 = 1) THEN q + 1 ELSE q

\* sum(1 for result in self.test_results if result["success"])
count_all(results) == Len(results)

RECURSIVE count_passed(_)
count_passed(results) ==
    IF results = <<>> THEN 0
    ELSE (IF Head(results).success THEN 1 ELSE 0) + count_passed(Tail(results))

\* (passed/total)*100 with the quotient truncated to an integer
report_of_intdiv(results, started, end_time) ==
    LET passed == count_passed(results)
        total  == Len(results)
    IN  [total            |-> total,
         passed           |-> passed,
         failed           |-> total - passed,
         success_rate     |-> Fraction((passed \div total) * 100, 1),
         duration_seconds |-> end_time - started,
         results          |-> results]

report_of(results, started, end_time) ==
    LET passed == count_passed(results)
        total  == Len(results)
    IN  [total            |-> total,
         passed           |-> passed,
         failed           |-> total - passed,
         success_rate     |-> Fraction(passed * 100, total),
         duration_seconds |-> end_time - started,
         results          |-> results]

\* passed/total raises ZeroDivisionError when total == 0 (line 180)
generate_report_call(results, started, end_time) ==
    IF Len(results) = 0
    THEN Raised("generate_report", "ZeroDivisionError")
    ELSE ReturnedValue("generate_report", report_of(results, started, end_time))

generate_report ==
    \E now \in Now(clock) :
        /\ clock' = now
        /\ call' = generate_report_call(test_results, start_time, now)
        /\ UNCHANGED <<test_results, start_time, tempFile, fileFault>>

(***************************************************************************)
(* A direct call of log_test, as the unit tests make it.                   *)
(***************************************************************************)
LogInputs == {<<"Test 1", TRUE, DefaultDetails>>,
              <<"Test 3", FALSE, "Error message">>}

LogTest ==
    \E now \in Now(clock), in \in LogInputs :
        /\ test_results' = log_test(test_results, in[1], in[2], in[3], now)
        /\ clock' = now
        /\ call' = Returned("log_test")
        /\ UNCHANGED <<start_time, tempFile, fileFault>>

(***************************************************************************)
(* main(): the five checks in their fixed order, the report, the report    *)
(* file, and the exit status of the process (line 229).  An OSError of     *)
(* open("agent_test_report.json", "w") is caught nowhere: the interpreter  *)
(* prints the traceback and exits with status 1.                           *)
(***************************************************************************)
main_success_any(report) == report.passed > 0

main_success(report) == report.success_rate = Hundred

exit_status(success) == IF success THEN 0 ELSE 1

\* an exception no handler catches: the interpreter exits with status 1
UncaughtExceptionStatus == 1

MainBasic ==
    /\ pc = "basic"
    /\ test_basic_operations
    /\ pc' = "file"
    /\ UNCHANGED <<exitStatus, reportFile, serverVars>>

MainFile ==
    /\ pc = "file"
    /\ test_file_operations
    /\ pc' = "data"
    /\ UNCHANGED <<exitStatus, reportFile, serverVars>>

MainData ==
    /\ pc = "data"
    /\ test_data_structures
    /\ pc' = "algorithms"
    /\ UNCHANGED <<exitStatus, reportFile, serverVars>>

MainAlgorithms ==
    /\ pc = "algorithms"
    /\ test_algorithms
    /\ pc' = "errors"
    /\ UNCHANGED <<exitStatus, reportFile, serverVars>>

MainErrors ==
    /\ pc = "errors"
    /\ test_error_handling
    /\ pc' = "report"
    /\ UNCHANGED <<exitStatus, reportFile, serverVars>>

MainReport ==
    /\ pc = "report"
    /\ generate_report
    /\ IF call'.exc = NoException
       THEN pc' = "save" /\ UNCHANGED exitStatus
       ELSE pc' = "exited" /\ exitStatus' = UncaughtExceptionStatus
    /\ UNCHANGED <<reportFile, serverVars>>

\* with open("agent_test_report.json", "w") as f: json.dump(report, f, indent=2)
MainSave ==
    /\ pc = "save"
    /\ \E written \in BOOLEAN :
          IF written
          THEN /\ reportFile' = call.value
               /\ pc' = "return"
               /\ UNCHANGED exitStatus
          ELSE /\ pc' = "exited"
               /\ exitStatus' = UncaughtExceptionStatus
               /\ UNCHANGED reportFile
    /\ UNCHANGED <<testerVars, serverVars>>

\* return report["success_rate"] == 100.0; sys.exit(0 if success else 1)
MainExit ==
    /\ pc = "return"
    /\ exitStatus' = exit_status(main_success(call.value[1]))
    /\ pc' = "exited"
    /\ UNCHANGED <<testerVars, reportFile, serverVars>>

(***************************************************************************)
(* start_server().  The operating system decides the outcome of the bind:  *)
(* a port another listener holds gives the platform's "address already in  *)
(* use" error; any port may be refused for another reason.                 *)
(***************************************************************************)
DefaultPort       == 8000
AddressInUseErrno == 48

Platforms == {"darwin", "linux", "win32"}

\* errno.EADDRINUSE of each platform
EADDRINUSE(os) ==
    CASE os = "darwin" -> 48
      [] os = "linux"  -> 98
      [] os = "win32"  -> 10048

\* failures of os.chdir and of the bind that are not "address already in use"
OtherFailures == {[kind |-> "permission_denied", errno |-> 13],
                  [kind |-> "no_such_directory", errno |-> 2]}

PortRange == DefaultPort..(DefaultPort + MaxProbe)

BindFailures(os, busy, p) ==
    IF p \in busy
    THEN {[kind |-> "address_in_use", errno |-> EADDRINUSE(os)]}
    ELSE OtherFailures

\* except OSError as e: if e.errno == 48
is_retried_always(e) == TRUE

is_retried(e) == e.errno = AddressInUseErrno

BindOk ==
    /\ srvState = "called"
    /\ port \notin occupied
    /\ srvState' = "serving"
    /\ stdout' = Append(stdout, [msg |-> "Starting server at", port |-> port])
    /\ UNCHANGED <<platform, occupied, port, lastErr, srvExit>>

BindRetry ==
    /\ srvState = "called"
    /\ \E e \in BindFailures(platform, occupied, port) :
          /\ is_retried(e)
          /\ lastErr' = <<[kind |-> e.kind, errno |-> e.errno, port |-> port]>>
          /\ stdout' = Append(stdout, [msg |-> "is already in use. Trying port",
                                       port |-> port + 1])
          /\ port' = port + 1              \* start_server(port + 1)
    /\ port < DefaultPort + MaxProbe + 1
    /\ UNCHANGED <<platform, occupied, srvState, srvExit>>

BindFatal ==
    /\ srvState = "called"
    /\ \E e \in BindFailures(platform, occupied, port) :
          /\ ~is_retried(e)
          /\ lastErr' = <<[kind |-> e.kind, errno |-> e.errno, port |-> port]>>
          /\ stdout' = Append(stdout, [msg |-> "Error starting server", port |-> port])
    /\ srvState' = "exited"                \* sys.exit(1)
    /\ srvExit' = 1
    /\ UNCHANGED <<platform, occupied, port>>

\* except KeyboardInterrupt: the with block closes the listener, every
\* frame of start_server returns and the process ends.
Interrupt ==
    /\ srvState = "serving"
    /\ stdout' = Append(stdout, [msg |-> "Server stopped by user", port |-> port])
    /\ srvState' = "returned"
    /\ srvExit' = 0
    /\ UNCHANGED <<platform, occupied, port, lastErr>>

(***************************************************************************)
(* Spec: a fresh AgentTester and any sequence of calls on it.              *)
(***************************************************************************)
InitTester ==
    /\ test_results = <<>>
    /\ clock = 0
    /\ start_time = clock
    /\ tempFile = <<>>
    /\ fileFault = "none"
    /\ call = Returned("__init__")

InitMainIdle ==
    /\ pc = "idle"
    /\ exitStatus = -1
    /\ reportFile = <<>>

InitServerIdle ==
    /\ platform = "darwin"
    /\ occupied = {}
    /\ srvState = "idle"
    /\ port = DefaultPort
    /\ lastErr = <<>>
    /\ stdout = <<>>
    /\ srvExit = -1

Init == InitTester /\ InitMainIdle /\ InitServerIdle

Idle == UNCHANGED <<mainVars, serverVars>>

CallLogTest         == LogTest /\ Len(test_results') <= MaxResults /\ Idle
CallBasicOperations == test_basic_operations /\ Len(test_results') <= MaxResults /\ Idle
CallFileOperations  == test_file_operations /\ Len(test_results') <= MaxResults /\ Idle
CallDataStructures  == test_data_structures /\ Len(test_results') <= MaxResults /\ Idle
CallAlgorithms      == test_algorithms /\ Len(test_results') <= MaxResults /\ Idle
CallErrorHandling   == test_error_handling /\ Len(test_results') <= MaxResults /\ Idle
CallGenerateReport  == generate_report /\ Idle

Next ==
    \/ CallLogTest
    \/ CallBasicOperations
    \/ CallFileOperations
    \/ CallDataStructures
    \/ CallAlgorithms
    \/ CallErrorHandling
    \/ CallGenerateReport

Spec == Init /\ [][Next]_vars

(***************************************************************************)
(* SpecMain: one run of main().                                            *)
(***************************************************************************)
InitMain ==
    /\ InitTester
    /\ pc = "basic"
    /\ exitStatus = -1
    /\ reportFile = <<>>
    /\ InitServerIdle

NextMain ==
    \/ MainBasic
    \/ MainFile
    \/ MainData
    \/ MainAlgorithms
    \/ MainErrors
    \/ MainReport
    \/ MainSave
    \/ MainExit

SpecMain == InitMain /\ [][NextMain]_vars

(***************************************************************************)
(* SpecServer: one run of start_server() with the default port.            *)
(***************************************************************************)
InitServer ==
    /\ InitTester
    /\ InitMainIdle
    /\ platform \in Platforms
    /\ occupied \in SUBSET PortRange
    /\ srvState = "called"
    /\ port = DefaultPort
    /\ lastErr = <<>>
    /\ stdout = <<>>
    /\ srvExit = -1

NextServer ==
    \/ (BindOk /\ UNCHANGED <<testerVars, mainVars>>)
    \/ (BindRetry /\ UNCHANGED <<testerVars, mainVars>>)
    \/ (BindFatal /\ UNCHANGED <<testerVars, mainVars>>)
    \/ (Interrupt /\ UNCHANGED <<testerVars, mainVars>>)

SpecServer == InitServer /\ [][NextServer]_vars

(***************************************************************************)
(* Properties                                                              *)
(***************************************************************************)
CheckNames == {"test_basic_operations", "test_file_operations",
               "test_data_structures", "test_algorithms", "test_error_handling"}

Last(seq) == seq[Len(seq)]

IsReport(c) == c.op = "generate_report" /\ c.value # NoValue

PassedSet(results) == {i \in 1..Len(results) : results[i].success}
FailedSet(results) == {i \in 1..Len(results) : ~results[i].success}

\* C1: every invocation of one of the five checks appends exactly one entry
\* to test_results, also when an operation that test_error_handling triggers
\* does not raise.
C1_OneEntryPerCheck ==
    [][call'.op \in CheckNames => Len(test_results') = Len(test_results) + 1]_vars

\* C2: a report of a non-empty sequence of results has total = len(results),
\* passed = the number of entries with success, failed = the number of
\* entries without, and passed + failed = total; and a non-empty sequence
\* always gets a report.
C2_ReportCounts ==
    call.op = "generate_report" =>
        /\ Len(test_results) > 0 => call.value # NoValue
        /\ call.value # NoValue =>
              LET r == call.value[1] IN
              /\ r.total = Len(test_results)
              /\ r.passed = Cardinality(PassedSet(test_results))
              /\ r.failed = Cardinality(FailedSet(test_results))
              /\ r.passed + r.failed = r.total

C2_Witness ==
    /\ IsReport(call)
    /\ call.value[1].total = 3
    /\ call.value[1].passed = 2
    /\ call.value[1].failed = 1

\* C3: generate_report on an empty test_results returns without raising.
C3_EmptyReportDoesNotRaise ==
    (call.op = "generate_report" /\ Len(test_results) = 0) => call.exc = NoException

C5_FileFaultIsolated ==
    /\ call.op \in CheckNames => call.exc = NoException
    /\ (pc = "exited" /\ fileFault # "none") =>
          /\ Cardinality({i \in 1..Len(test_results) :
                              test_results[i].test = "File Operations"}) = 1
          /\ test_results[1].test = "Basic Operations"
          /\ test_results[1].success
          /\ test_results[1].details = "Math, strings, and lists working correctly"
          /\ test_results[2].test = "File Operations"
          /\ ~test_results[2].success
          /\ test_results[2].details = FaultMessage(fileFault)
          /\ test_results[3].test = "Data Structures"
          /\ test_results[3].success
          /\ test_results[3].details = "Dictionaries, JSON, and sets working correctly"
          /\ test_results[4].test = "Algorithms"
          /\ test_results[4].success
          /\ test_results[4].details = "Fibonacci, sorting, and prime checking working"
          /\ Len(test_results) >= 5
          /\ \A i \in 5..Len(test_results) : test_results[i].test = "Error Handling"
          /\ Last(test_results).success
          /\ IsReport(call)
          /\ call.value[1].results = test_results
          /\ exitStatus # 0

C5_Witness ==
    /\ pc = "exited"
    /\ fileFault = "open_w"
    /\ Len(test_results) = 5
    /\ ~test_results[2].success
    /\ test_results[2].details = FaultMessage("open_w")
    /\ call.value[1].passed = 4
    /\ exitStatus = 1

\* C6 as stated: the runner exits with status 0 if and only if the report's
\* success_rate is 100.0, and with status 1 otherwise.
C6_ExitZeroIffRate ==
    pc = "exited" =>
        /\ exitStatus \in {0, 1}
        /\ exitStatus = 0 <=> (IsReport(call) /\ call.value[1].success_rate = Hundred)

\* C6 amended: the runner exits with status 0 if and only if the report's
\* success_rate is 100.0 and the report file was written, and with status 1
\* otherwise (also when writing the report file fails); a run in which all
\* five checks pass and the report file is written yields total 5, passed 5,
\* failed 0 and status 0; a run in which a check records a failure exits
\* non-zero.
C6_ExitStatus ==
    pc = "exited" =>
        /\ exitStatus \in {0, 1}
        /\ IsReport(call)
        /\ exitStatus = 0 <=>
              (call.value[1].success_rate = Hundred /\ reportFile = call.value)
        /\ (Len(test_results) = 5 /\ FailedSet(test_results) = {}
              /\ reportFile # <<>>) =>
              /\ call.value[1].total = 5
              /\ call.value[1].passed = 5
              /\ call.value[1].failed = 0
              /\ exitStatus = 0
        /\ FailedSet(test_results) # {} => exitStatus # 0

C6_Witness ==
    /\ pc = "exited"
    /\ exitStatus = 0
    /\ call.value[1].total = 5
    /\ call.value[1].passed = 5
    /\ reportFile = call.value

\* C7: whenever the bind fails because the address is in use, whatever errno
\* the operating system gives it, the server does not exit but goes on with
\* port + 1.
C7_AddressInUseRetried ==
    (lastErr # <<>> /\ lastErr[1].kind = "address_in_use") =>
        /\ srvState # "exited"
        /\ port = lastErr[1].port + 1

\* C8: a failure other than address-in-use is fatal: it is reported, no
\* further port is tried and the process exits with a non-zero status; an
\* interrupt while serving returns with the listener closed, status zero and
\* no retry.
C8_OtherFailureFatal ==
    /\ (lastErr # <<>> /\ lastErr[1].kind # "address_in_use") =>
          /\ srvState = "exited"
          /\ srvExit # 0 /\ srvExit # -1
          /\ port = lastErr[1].port
          /\ Last(stdout) = [msg |-> "Error starting server", port |-> port]
    /\ srvState = "returned" =>
          /\ srvExit = 0
          /\ Len(stdout) >= 2
          /\ Last(stdout) = [msg |-> "Server stopped by user", port |-> port]
          /\ stdout[Len(stdout) - 1] = [msg |-> "Starting server at", port |-> port]
          /\ Cardinality({i \in 1..Len(stdout) :
                              stdout[i].msg = "Starting server at"}) = 1
    /\ srvState = "serving" => srvExit = -1

C8_Witness ==
    /\ srvState = "exited"
    /\ lastErr # <<>>
    /\ lastErr[1].kind = "permission_denied"
    /\ port = DefaultPort + 1
    /\ srvExit = 1

\* C9 as stated: whenever test_file_operations records success, the temporary
\* file does not exist afterwards and the working directory is as it was
\* before the call.
C9_SuccessRestoresDirectory ==
    [][(call'.op = "test_file_operations" /\ Last(test_results').success)
          => (tempFile' = <<>> /\ tempFile' = tempFile)]_vars

\* C9 amended: whenever test_file_operations records success, the temporary
\* file does not exist afterwards; the working directory is as it was before
\* the call if the file did not exist before, and otherwise the file an
\* earlier failed call left behind is gone.  When the check fails after the
\* file was created and before os.remove completed, the file is left behind.
C9_SuccessRemovesTempFile ==
    [][call'.op = "test_file_operations" =>
          /\ Len(test_results') = Len(test_results) + 1
          /\ Last(test_results').success => tempFile' = <<>>
          /\ (Last(test_results').success /\ tempFile = <<>>) => tempFile' = tempFile
          /\ fileFault' \in {"open_r", "read_data", "remove"} =>
                (~Last(test_results').success /\ tempFile' = <<test_content>>)
          /\ fileFault' = "open_w" =>
                (~Last(test_results').success /\ tempFile' = tempFile)]_vars

C9_Witness ==
    /\ call.op = "test_file_operations"
    /\ Len(test_results) = 2
    /\ test_results[1].test = "File Operations"
    /\ test_results[1].details = FaultMessage("remove")
    /\ test_results[2].test = "File Operations"
    /\ test_results[2].success
    /\ tempFile = <<>>

\* C10: every operation leaves the entries already in test_results unchanged
\* and in place; log_test appends at the end; generate_report changes neither
\* test_results nor start_time and returns results equal to test_results.
C10_ResultsOnlyGrow ==
    [][/\ Len(test_results') >= Len(test_results)
       /\ SubSeq(test_results', 1, Len(test_results)) = test_results
       /\ start_time' = start_time
       /\ call'.op = "log_test" =>
             /\ Len(test_results') = Len(test_results) + 1
             /\ \E in \in LogInputs :
                   test_results' = test_results \o
                       <<[test |-> in[1], success |-> in[2], details |-> in[3],
                          timestamp |-> clock']>>
       /\ call'.op = "generate_report" =>
             /\ test_results' = test_results
             /\ call'.value # NoValue => call'.value[1].results = test_results]_vars

C10_Witness ==
    /\ IsReport(call)
    /\ Len(test_results) = 3
    /\ call.value[1].results = test_results
    /\ test_results[1].test = "Test 3"
    /\ test_results[2].test = "File Operations"
    /\ test_results[3].test = "Test 1"

====
